---- MODULE Spec2Model ----
(***************************************************************************)
(* Captive-portal gateway: the acceptance registry (ACCEPTED) and the HTTP *)
(* handlers that read and write it, in the three servers of the            *)
(* repository:                                                             *)
(*   "server1"  Flask, audit sink tested with `mongo_coll is None`         *)
(*   "server2"  Flask, audit sink tested with `not mongo_coll`             *)
(*   "basic"    http.server.SimpleHTTPRequestHandler, no audit sink        *)
(* Every request is one handler thread (Flask's threaded server); the      *)
(* basic server handles one request at a time (HTTPServer).                *)
(***************************************************************************)
EXTENDS Integers, Sequences, FiniteSets, TLC

\* Handler threads that can be in flight together (Flask's threaded server
\* starts one per connection).
Threads == {"t1", "t2"}

\* ------------------------------------------------------- program constants
PORTAL_PATH == "/portal"
API_PATH == "/.well-known/captive-portal"
ACCEPT_PATH == "/accept"
ROOT_PATH == "/"
OTHER_PATH == "/other"

Servers == {"server1", "server2", "basic"}

\* Transport addresses of clients, and the Host header values ("" = absent).
Addr == {"10.0.0.5", "10.0.0.6"}
NoHost == ""
GwHost == "gw.local:8000"

\* Values of the PORT environment variable: the default and another one.
Ports == {"8000", "8080"}

\* ---------------------------------------------------------------- bounds
\* Longest X-Forwarded-For chain a request carries.
MaxXff == 2

\* An X-Forwarded-For chain of n entries: a first entry that is not the
\* sender's transport address, then the proxies.
Chain(n) == [i \in 1..n |-> IF i = 1 THEN "10.0.0.6" ELSE "10.0.0.5"]

\* The transport address and the X-Forwarded-For header of a request: the
\* header as the parsed list of its entries (<<>> = header absent or empty).
Origins ==
    {<<a, <<>> >> : a \in Addr} \cup {<<"10.0.0.5", Chain(n)>> : n \in 1..MaxXff}

Request(method, path, origin, host) ==
    [method |-> method, path |-> path, remote |-> origin[1], xff |-> origin[2], host |-> host]

\* Requests: the probe and the accept vary in origin, the probe also comes
\* without a Host header; the other routes have no identity-dependent
\* behaviour.
Requests ==
    {Request("GET", API_PATH, o, GwHost) : o \in Origins}
    \cup {Request("GET", API_PATH, <<"10.0.0.5", <<>> >>, NoHost)}
    \cup {Request("POST", ACCEPT_PATH, o, GwHost) : o \in Origins}
    \cup {Request("GET", p, <<"10.0.0.5", <<>> >>, GwHost) :
            p \in {PORTAL_PATH, ROOT_PATH, OTHER_PATH, ACCEPT_PATH}}
    \cup {Request("POST", PORTAL_PATH, <<"10.0.0.5", <<>> >>, GwHost)}

NoRequest == [method |-> "-", path |-> "-", remote |-> "-", xff |-> <<>>, host |-> NoHost]

VARIABLES
    server,       \* which of the three servers runs
    PORT,         \* the configured listen port (environment variable PORT)
    mongo,        \* "unset" | "unreachable" | "connected": MONGO_URI and the startup ping
    mongo_coll,   \* "None" | "Collection": the module-level handle after startup
    collBoolRaises, \* pymongo >= 4: bool(Collection) raises NotImplementedError
    ACCEPTED,     \* the registry
    indexExists,  \* ROOT_DIR/index.html is present
    pc,           \* per thread: "idle" | "view" | "send" | "respond"
    req,          \* per thread: the request it handles
    resp,         \* per thread: the response it is about to send
    write,        \* per thread: the audit writer it started, [state, doc]
    startedAfter, \* per thread: an accept for its identity was answered before it started
    posted,       \* identities for which a POST /accept has been received
    completed,    \* identities whose POST /accept has been answered
    ACCEPTED0,    \* the registry of the reference run with no sink configured
    resp0,        \* per thread: the response of the reference run
    lookup        \* per thread: the hostname lookup its view made, "none" | "resolved" | "gaierror"

vars == <<server, PORT, mongo, mongo_coll, collBoolRaises, lookup, ACCEPTED, indexExists, pc, req,
          resp, write, startedAfter, posted, completed, ACCEPTED0, resp0, lookup>>

\* ------------------------------------------------------- identity derivation
\* werkzeug ProxyFix(x_for=1): REMOTE_ADDR becomes the last entry of
\* X-Forwarded-For when the header has one, else the transport address.
ProxyFix(rq) == IF Len(rq.xff) >= 1 THEN rq.xff[Len(rq.xff)] ELSE rq.remote

\* werkzeug request.access_route: the whole X-Forwarded-For list when the
\* header is present, else [remote_addr].
access_route(rq) == IF Len(rq.xff) >= 1 THEN rq.xff ELSE <<ProxyFix(rq)>>

\* _client_ip of the Flask servers.
FlaskClientIp(rq) ==
    IF Len(access_route(rq)) >= 1 THEN access_route(rq)[1] ELSE ProxyFix(rq)

\* CaptivePortalHandler._client_ip: client_address[0].
BasicClientIp(rq) == rq.remote

_client_ip(srv, rq) == IF srv = "basic" THEN BasicClientIp(rq) ELSE FlaskClientIp(rq)

\* _xff_client_ip: first entry of the raw header, "" when absent.
_xff_client_ip(rq) == IF Len(rq.xff) >= 1 THEN rq.xff[1] ELSE ""

\* ------------------------------------------------------------------ responses
NoStore == "no-store"
NoHeader == "-"

Response(status, cache, ctype, location, body, json) ==
    [status |-> status, cache |-> cache, ctype |-> ctype, location |-> location,
     body |-> body, json |-> json]

NoResponse == Response(0, NoHeader, NoHeader, NoHeader, "", {})

\* no_store(resp): sets Cache-Control on the response it is given.
no_store(rsp) == [rsp EXCEPT !.cache = NoStore]

\* flask make_response(body, status): default mimetype text/html.
make_response(body, status) ==
    Response(status, NoHeader, "text/html; charset=utf-8", NoHeader, body, {})

\* What Flask answers when a view or an after_request hook raises.
InternalServerError == make_response("Internal Server Error", 500)
\* werkzeug routing: no rule matches the path / a rule matches, not the method.
NotFound == make_response("Not Found", 404)
MethodNotAllowed == make_response("Method Not Allowed", 405)

\* http.server send_error(code, message): an HTML error page, no Cache-Control.
send_error(code, message) ==
    Response(code, NoHeader, "text/html;charset=utf-8", NoHeader, message, {})

\* socketserver handle_error: the handler raised, the connection is closed
\* and no HTTP response is written.
ConnectionClosed == NoResponse

\* socket.gethostbyname(socket.gethostname()): an address, or socket.gaierror.
GaiError == "gaierror"
ResolveOutcomes == {"192.0.2.1", GaiError}

\* The external lookup portal_url_from_host makes: `host_header or ...`
\* evaluates gethostbyname only when the Host header is absent.
LookupMade(host_header, resolved) ==
    IF host_header # NoHost THEN "none"
    ELSE IF resolved = GaiError THEN "gaierror" ELSE "resolved"

portal_url_from_host(host_header, resolved) ==
    "http://" \o (IF host_header # NoHost THEN host_header ELSE resolved \o ":8000")
        \o PORTAL_PATH

\* `client_ip in ACCEPTED`: the membership query.
IsAccepted(reg, ip) == ip \in reg

\* A probe that released the client it answers.
ProbeRegistryAutoAccept(reg, ip) == reg \cup {ip}

\* The registry after captive_portal_api: the view only evaluates
\* `client_ip not in ACCEPTED`.
ProbeRegistry(reg, ip) == reg

\* The payload dict of the probe, as json.dumps serialises it (two keys).
Payload(captive, url) == ("captive" :> captive) @@ ("user-portal-url" :> url)

\* captive_portal_api (Flask): the response for registry `reg`; `resolved` is
\* the outcome of the hostname lookup, made only when Host is absent.
captive_portal_api(rq, reg, resolved) ==
    IF rq.host = NoHost /\ resolved = GaiError
    THEN InternalServerError
    ELSE no_store([make_response("", 200) EXCEPT
             !.ctype = "application/captive+json",
             !.json = {Payload(~IsAccepted(reg, FlaskClientIp(rq)),
                               portal_url_from_host(rq.host, resolved))}])

\* do_GET, API_PATH branch, and _json (basic server).
BasicProbe(rq, reg, resolved) ==
    IF rq.host = NoHost /\ resolved = GaiError
    THEN ConnectionClosed
    ELSE Response(200, NoStore, "application/captive+json", NoHeader, "",
                  {Payload(~IsAccepted(reg, BasicClientIp(rq)),
                           portal_url_from_host(rq.host, resolved))})

\* Plausible slips of the registry update: assignment instead of add, a
\* toggle, and a key wider than one address.
RegistryReplace(reg, ip) == {ip}
RegistryToggle(reg, ip) == IF ip \in reg THEN reg \ {ip} ELSE reg \cup {ip}
RegistryAddSubnet(reg, ip) == reg \cup Addr

\* ACCEPTED.add(client_ip)
RegistryAdd(reg, ip) == reg \cup {ip}

\* accept_terms (Flask): make_response("", 204) then no_store.
accept_terms_response == no_store(make_response("", 204))

\* _no_content(204) (basic server).
_no_content(code) == Response(code, NoStore, NoHeader, NoHeader, "", {})

\* root_index: no_store(redirect(PORTAL_PATH, code=302)).
root_index == no_store([make_response("Redirecting", 302) EXCEPT !.location = PORTAL_PATH])

\* portal_page, first half: os.path.exists(file_path) is false.
portal_missing == make_response("index.html not found", 404)

\* portal_page, second half: send_file raises FileNotFoundError when the
\* file went away after the exists() check.
portal_send(exists) ==
    IF exists
    THEN no_store([make_response("<index.html>", 200) EXCEPT !.ctype = "text/html; charset=utf-8"])
    ELSE InternalServerError

\* _serve_index (basic server): open() succeeds or raises FileNotFoundError.
_serve_index(exists) ==
    IF exists
    THEN Response(200, NoStore, "text/html; charset=utf-8", NoHeader, "<index.html>", {})
    ELSE send_error(404, "index.html not found")

\* SimpleHTTPRequestHandler.do_GET under ROOT_DIR: "/" is the directory
\* (index.html when present, else a listing); the other modelled paths
\* name no file.
StaticFile(path, exists) ==
    IF path = ROOT_PATH
    THEN Response(200, NoHeader, "text/html", NoHeader,
                  IF exists THEN "<index.html>" ELSE "<directory listing>", {})
    ELSE send_error(404, "File not found")

\* Flask's route table: the rules registered by @app.get / @app.post.
FlaskRules == {<<"GET", API_PATH>>, <<"GET", PORTAL_PATH>>, <<"GET", ROOT_PATH>>,
               <<"POST", ACCEPT_PATH>>}

FlaskUnmatched(rq) ==
    IF \E rule \in FlaskRules : rule[2] = rq.path THEN MethodNotAllowed ELSE NotFound

\* ------------------------------------------------------------------ audit sink
NoDoc == [event |-> "-", ip |-> "-", xff_ip |-> "-", method |-> "-", path |-> "-", status |-> 0]
NoWrite == [state |-> "none", doc |-> NoDoc, attempts |-> 0]

\* threading.Thread(target=_write, daemon=True).start(): the write is handed
\* to its own thread with the document built by the caller.
StartWrite(doc) == [state |-> "started", doc |-> doc, attempts |-> 0]

\* Module-level setup: mongo_coll is the collection when MONGO_URI is set and
\* the ping succeeds; a connection error is caught and leaves it None.
MongoSetup(m) == IF m = "connected" THEN "Collection" ELSE "None"

\* _log_to_mongo(event) of server1: returns when mongo_coll is None, else
\* builds the document and starts the writer thread.
_log_to_mongo(coll, rq, event, w) ==
    IF coll = "None"
    THEN w
    ELSE StartWrite([event |-> event, ip |-> FlaskClientIp(rq), xff_ip |-> _xff_client_ip(rq),
                     method |-> "-", path |-> rq.path, status |-> 0])

\* _log_request(resp) of server1 (after_request): a GET is sent to the sink
\* as a "request" event; the response is returned as it came.
Server1After(coll, rq, w) == IF rq.method = "GET" THEN _log_to_mongo(coll, rq, "request", w) ELSE w

\* `if not mongo_coll:` of server2's _log_request: None is falsy; a pymongo
\* Collection raises NotImplementedError from bool() (pymongo >= 4) or is
\* truthy (pymongo 3).
NotMongoColl(coll, raises) ==
    IF coll = "None" THEN "return" ELSE IF raises THEN "raise" ELSE "log"

\* _after(resp) of server2: the event is "accept" for POST /accept.
Server2Event(rq) == IF rq.path = ACCEPT_PATH /\ rq.method = "POST" THEN "accept" ELSE "None"

\* _log_request(event) of server2: the entry and the writer thread.
Server2Log(rq, rsp, w) ==
    StartWrite([event |-> Server2Event(rq), ip |-> FlaskClientIp(rq),
                xff_ip |-> _xff_client_ip(rq), method |-> rq.method, path |-> rq.path,
                status |-> rsp.status])

\* The response the client gets from server2 once _after has run: an
\* exception in an after_request hook turns the response into a 500.
Server2AfterResponse(coll, raises, rsp) ==
    IF NotMongoColl(coll, raises) = "raise" THEN InternalServerError ELSE rsp


\* The after_request hook applied to the response of a view: _log_request
\* of server1 returns it as it came, _after of server2 calls _log_request,
\* the basic server has no hook.
AfterRequestResponse(srv, coll, raises, rsp) ==
    IF srv = "server2" THEN Server2AfterResponse(coll, raises, rsp) ELSE rsp

\* The writer thread the after_request hook leaves behind.
AfterRequestWrite(srv, coll, raises, rq, rsp, w) ==
    IF srv = "server1" THEN Server1After(coll, rq, w)
    ELSE IF srv = "server2" /\ NotMongoColl(coll, raises) = "log" THEN Server2Log(rq, rsp, w)
    ELSE w

\* ------------------------------------------------------------------ state
TypeOK ==
    /\ server \in Servers
    /\ PORT \in Ports
    /\ mongo \in {"unset", "unreachable", "connected"}
    /\ mongo_coll \in {"None", "Collection"}
    /\ collBoolRaises \in BOOLEAN
    /\ ACCEPTED \subseteq Addr
    /\ ACCEPTED0 \subseteq Addr
    /\ posted \subseteq Addr
    /\ completed \subseteq Addr
    /\ indexExists \in BOOLEAN
    /\ pc \in [Threads -> {"idle", "view", "send", "respond"}]
    /\ req \in [Threads -> Requests \cup {NoRequest}]
    /\ startedAfter \in [Threads -> BOOLEAN]
    /\ \A t \in Threads : write[t].state \in {"none", "started", "ok", "failed"}
    /\ lookup \in [Threads -> {"none", "resolved", "gaierror"}]

\* The servers with an audit sink read MONGO_URI; the basic server has none.
Init ==
    /\ server \in Servers
    /\ PORT \in Ports
    /\ mongo \in (IF server = "basic" THEN {"unset"} ELSE {"unset", "unreachable", "connected"})
    /\ mongo_coll = MongoSetup(mongo)
    /\ collBoolRaises \in (IF server = "server2" /\ mongo = "connected" THEN BOOLEAN ELSE {FALSE})
    /\ ACCEPTED = {}
    /\ ACCEPTED0 = {}
    /\ posted = {}
    /\ completed = {}
    /\ indexExists \in BOOLEAN
    /\ pc = [t \in Threads |-> "idle"]
    /\ req = [t \in Threads |-> NoRequest]
    /\ resp = [t \in Threads |-> NoResponse]
    /\ resp0 = [t \in Threads |-> NoResponse]
    /\ write = [t \in Threads |-> NoWrite]
    /\ startedAfter = [t \in Threads |-> FALSE]
    /\ lookup = [t \in Threads |-> "none"]

Flask == server \in {"server1", "server2"}

Ident(t) == _client_ip(server, req[t])

IsProbeReq(rq) == rq.method = "GET" /\ rq.path = API_PATH
IsAcceptReq(rq) == rq.method = "POST" /\ rq.path = ACCEPT_PATH
IsProbe(t) == IsProbeReq(req[t])
IsAccept(t) == IsAcceptReq(req[t])
IsPortal(t) == req[t].method = "GET" /\ req[t].path = PORTAL_PATH
IsRoot(t) == req[t].method = "GET" /\ req[t].path = ROOT_PATH

InFlight(t) == pc[t] # "idle"

\* The view has returned `view` (`view0` in the reference run) and started
\* the writer `w`: the after_request hooks run and the response is ready.
Finish(t, view, view0, w) ==
    /\ resp' = [resp EXCEPT ![t] = AfterRequestResponse(server, mongo_coll, collBoolRaises, view)]
    /\ resp0' = [resp0 EXCEPT ![t] = AfterRequestResponse(server, "None", collBoolRaises, view0)]
    /\ write' = [write EXCEPT ![t] =
            AfterRequestWrite(server, mongo_coll, collBoolRaises, req[t], view, w)]
    /\ pc' = [pc EXCEPT ![t] = "respond"]

\* ------------------------------------------------------------------ actions
\* A request arrives and gets a handler thread (the first free one, whose
\* previous writer has ended). HTTPServer (basic) is single-threaded: it
\* takes the next request when the previous one is answered.
Receive(t, rq) ==
    /\ pc[t] = "idle" /\ write[t].state # "started"
    /\ t = "t2" => pc["t1"] # "idle" \/ write["t1"].state = "started"
    /\ server = "basic" => \A x \in Threads : ~InFlight(x)
    /\ pc' = [pc EXCEPT ![t] = "view"]
    /\ req' = [req EXCEPT ![t] = rq]
    /\ write' = [write EXCEPT ![t] = NoWrite]
    /\ startedAfter' = [startedAfter EXCEPT ![t] = _client_ip(server, rq) \in completed]
    /\ posted' = IF IsAcceptReq(rq) THEN posted \cup {_client_ip(server, rq)} ELSE posted
    /\ UNCHANGED <<server, PORT, mongo, mongo_coll, collBoolRaises, lookup, ACCEPTED, ACCEPTED0,
                   indexExists, resp, resp0, completed>>

\* GET /.well-known/captive-portal
Probe(t) ==
    /\ pc[t] = "view" /\ IsProbe(t)
    /\ \E resolved \in (IF req[t].host = NoHost THEN ResolveOutcomes ELSE {"unused"}) :
         /\ Finish(t, IF Flask THEN captive_portal_api(req[t], ACCEPTED, resolved)
                               ELSE BasicProbe(req[t], ACCEPTED, resolved),
                      IF Flask THEN captive_portal_api(req[t], ACCEPTED0, resolved)
                               ELSE BasicProbe(req[t], ACCEPTED0, resolved),
                      write[t])
         /\ lookup' = [lookup EXCEPT ![t] = LookupMade(req[t].host, resolved)]
    /\ ACCEPTED' = ProbeRegistry(ACCEPTED, Ident(t))
    /\ ACCEPTED0' = ProbeRegistry(ACCEPTED0, Ident(t))
    /\ UNCHANGED <<server, PORT, mongo, mongo_coll, collBoolRaises,
                   indexExists, req, startedAfter, posted, completed>>

\* The response of the accept view.
AcceptResponse(srv) == IF srv = "basic" THEN _no_content(204) ELSE accept_terms_response

\* POST /accept: accept_terms / do_POST.
Accept(t) ==
    /\ pc[t] = "view" /\ IsAccept(t)
    /\ ACCEPTED' = RegistryAdd(ACCEPTED, Ident(t))
    /\ ACCEPTED0' = RegistryAdd(ACCEPTED0, Ident(t))
    /\ Finish(t, AcceptResponse(server), AcceptResponse(server),
              IF server = "server1"
              THEN _log_to_mongo(mongo_coll, req[t], "accept", write[t]) ELSE write[t])
    /\ UNCHANGED <<server, PORT, mongo, mongo_coll, collBoolRaises, lookup, indexExists, req,
                   startedAfter, posted, completed>>

\* GET /portal, Flask: portal_page up to the os.path.exists check; answers
\* 404 when the file is missing.
PortalCheck(t) ==
    /\ pc[t] = "view" /\ IsPortal(t) /\ Flask
    /\ IF indexExists
       THEN /\ pc' = [pc EXCEPT ![t] = "send"]
            /\ UNCHANGED <<resp, resp0, write>>
       ELSE Finish(t, portal_missing, portal_missing, write[t])
    /\ UNCHANGED <<server, PORT, mongo, mongo_coll, collBoolRaises, lookup, ACCEPTED, ACCEPTED0,
                   indexExists, req, startedAfter, posted, completed>>

\* GET /portal, Flask: send_file(file_path) and no_store.
PortalSend(t) ==
    /\ pc[t] = "send"
    /\ Finish(t, portal_send(indexExists), portal_send(indexExists), write[t])
    /\ UNCHANGED <<server, PORT, mongo, mongo_coll, collBoolRaises, lookup, ACCEPTED, ACCEPTED0,
                   indexExists, req, startedAfter, posted, completed>>

\* GET /portal, basic server: _serve_index.
ServeIndex(t) ==
    /\ pc[t] = "view" /\ IsPortal(t) /\ ~Flask
    /\ Finish(t, _serve_index(indexExists), _serve_index(indexExists), write[t])
    /\ UNCHANGED <<server, PORT, mongo, mongo_coll, collBoolRaises, lookup, ACCEPTED, ACCEPTED0,
                   indexExists, req, startedAfter, posted, completed>>

\* The response to GET /: root_index in Flask; the basic server has no
\* branch for it and falls through to the static handler.
RootResponse(srv, exists) == IF srv = "basic" THEN StaticFile(ROOT_PATH, exists) ELSE root_index

Root(t) ==
    /\ pc[t] = "view" /\ IsRoot(t)
    /\ Finish(t, RootResponse(server, indexExists), RootResponse(server, indexExists), write[t])
    /\ UNCHANGED <<server, PORT, mongo, mongo_coll, collBoolRaises, lookup, ACCEPTED, ACCEPTED0,
                   indexExists, req, startedAfter, posted, completed>>

\* The response to a request that is none of the four routes.
UnmatchedResponse(srv, rq, exists) ==
    IF srv # "basic" THEN FlaskUnmatched(rq)
    ELSE IF rq.method = "GET" THEN StaticFile(rq.path, exists)
    ELSE send_error(404, "Not Found")

Unmatched(t) ==
    /\ pc[t] = "view" /\ ~IsProbe(t) /\ ~IsAccept(t) /\ ~IsPortal(t) /\ ~IsRoot(t)
    /\ Finish(t, UnmatchedResponse(server, req[t], indexExists),
              UnmatchedResponse(server, req[t], indexExists), write[t])
    /\ UNCHANGED <<server, PORT, mongo, mongo_coll, collBoolRaises, lookup, ACCEPTED, ACCEPTED0,
                   indexExists, req, startedAfter, posted, completed>>

\* A handler that joined its writer thread would wait while it runs.
AwaitsWriteJoin(w) == w.state = "started"

\* Whether the handler waits for its writer thread before it answers: the
\* thread is started and never joined.
AwaitsWrite(w) == FALSE

\* The response goes out to the client and the handler thread ends.
Respond(t) ==
    /\ pc[t] = "respond"
    /\ ~AwaitsWrite(write[t])
    /\ pc' = [pc EXCEPT ![t] = "idle"]
    /\ completed' = IF IsAccept(t) THEN completed \cup {Ident(t)} ELSE completed
    /\ req' = [req EXCEPT ![t] = NoRequest]
    /\ resp' = [resp EXCEPT ![t] = NoResponse]
    /\ resp0' = [resp0 EXCEPT ![t] = NoResponse]
    /\ startedAfter' = [startedAfter EXCEPT ![t] = FALSE]
    /\ lookup' = [lookup EXCEPT ![t] = "none"]
    /\ UNCHANGED <<server, PORT, mongo, mongo_coll, collBoolRaises, ACCEPTED, ACCEPTED0,
                   indexExists, write, posted>>

\* A writer that put a failed document back for another attempt.
WriteOutcomeRetry(w, outcome) ==
    [w EXCEPT !.state = IF outcome = "failed" THEN "started" ELSE outcome,
              !.attempts = @ + 1]

\* The writer thread after its one insert_one(doc): `except Exception: pass`
\* ends the thread whether the insert succeeded or raised.
WriteOutcome(w, outcome) == [w EXCEPT !.state = outcome, !.attempts = @ + 1]

\* A writer that builds its document when it runs, from the request its
\* handler thread holds at that moment.
SentDocLazy(w, rq) == [w.doc EXCEPT !.path = rq.path, !.method = rq.method]

\* The document _write passes to insert_one: `doc` (`entry` in server2), the
\* dict its closure captured; _write has no access to the request.
SentDoc(w, rq) == w.doc

\* _write: insert_one(doc) succeeds, or raises and the exception is passed.
Write(t) ==
    /\ write[t].state = "started"
    /\ \E outcome \in {"ok", "failed"} :
         write' = [write EXCEPT ![t] =
                      [WriteOutcome(@, outcome) EXCEPT !.doc = SentDoc(write[t], req[t])]]
    /\ UNCHANGED <<server, PORT, mongo, mongo_coll, collBoolRaises, lookup, ACCEPTED, ACCEPTED0,
                   indexExists, pc, req, resp, resp0, startedAfter, posted, completed>>

\* The environment creates or removes ROOT_DIR/index.html.
FileChange ==
    /\ indexExists' = ~indexExists
    /\ UNCHANGED <<server, PORT, mongo, mongo_coll, collBoolRaises, lookup, ACCEPTED, ACCEPTED0,
                   pc, req, resp, resp0, write, startedAfter, posted, completed>>

\* The steps of the handler thread t between receiving and answering.
HandlerStep(t) ==
    \/ Probe(t) \/ Accept(t) \/ PortalCheck(t) \/ PortalSend(t) \/ ServeIndex(t)
    \/ Root(t) \/ Unmatched(t) \/ Respond(t)

Next ==
    \/ \E t \in Threads, rq \in Requests : Receive(t, rq)
    \/ \E t \in Threads : Probe(t)
    \/ \E t \in Threads : Accept(t)
    \/ \E t \in Threads : PortalCheck(t)
    \/ \E t \in Threads : PortalSend(t)
    \/ \E t \in Threads : ServeIndex(t)
    \/ \E t \in Threads : Root(t)
    \/ \E t \in Threads : Unmatched(t)
    \/ \E t \in Threads : Respond(t)
    \/ \E t \in Threads : Write(t)
    \/ FileChange

Spec == Init /\ [][Next]_vars

\* ------------------------------------------------------------------ claims
\* The response the client of thread t gets is final once pc[t] = "respond".
Answered(t) == pc[t] = "respond"

ReportsCaptive(rsp, value) ==
    /\ rsp.status = 200
    /\ rsp.json # {}
    /\ \A p \in rsp.json : p.captive = value

\* C1: an identity for which no POST /accept was ever made is not in the
\* registry, and every probe answered to it reports captive = true.
C1_NeverAcceptedIsCaptive ==
    \A c \in Addr \ posted :
        /\ c \notin ACCEPTED
        /\ \A t \in Threads :
             Answered(t) /\ IsProbe(t) /\ Ident(t) = c => ReportsCaptive(resp[t], TRUE)

\* C2: a probe that starts after a POST /accept of its identity was answered
\* reports captive = false, whatever the other handler thread does meanwhile.
C2_AcceptedIsReleased ==
    \A t \in Threads :
        Answered(t) /\ IsProbe(t) /\ startedAfter[t] => ReportsCaptive(resp[t], FALSE)

\* C3: registry membership is monotonic: no step of any kind removes an
\* identity from the registry.
C3_RegistryMonotonic == [][ACCEPTED \subseteq ACCEPTED']_vars

\* C3 witness: a released identity is being answered on a route other than
\* the accept while the registry holds it.
C3_Witness ==
    \E t \in Threads :
        Answered(t) /\ ~IsAccept(t) /\ Ident(t) \in ACCEPTED /\ Ident(t) \in completed

\* C4: accepts of distinct identities handled concurrently lose no entry:
\* every accept whose view has run, and every answered accept, has its
\* identity in the registry and the membership query returns true for it.
C4_NoLostAccept ==
    /\ \A t \in Threads : Answered(t) /\ IsAccept(t) => IsAccepted(ACCEPTED, Ident(t))
    /\ \A c \in completed : IsAccepted(ACCEPTED, c)

\* C4 witness: two accepts of distinct identities are in flight together
\* and both have run their view.
C4_Witness ==
    /\ Answered("t1") /\ IsAccept("t1")
    /\ Answered("t2") /\ IsAccept("t2")
    /\ Ident("t1") # Ident("t2")

\* C5: accept is idempotent: a POST /accept of an identity whose earlier
\* accept was already answered leaves the identity in the registry and is
\* answered like the first one, 204 with an empty body, never an error.
C5_AcceptIdempotent ==
    \A t \in Threads :
        Answered(t) /\ IsAccept(t) /\ startedAfter[t] =>
            /\ Ident(t) \in ACCEPTED
            /\ resp[t] = AcceptResponse(server)
            /\ resp[t].status = 204

\* C6: a POST /accept of identity c1 leaves the membership of every other
\* identity c2, hence the captive value reported to c2, unchanged: the
\* only identities whose membership a step changes are those of an accept
\* view running in that step.
C6_AcceptFrame ==
    [][\A c2 \in Addr :
          (IsAccepted(ACCEPTED', c2) # IsAccepted(ACCEPTED, c2)) =>
              \E t \in Threads :
                  pc[t] = "view" /\ IsAccept(t) /\ Ident(t) = c2 /\ pc'[t] = "respond"]_vars

\* C6 witness: an accept of c1 has run while another identity c2 is captive
\* and is being probed.
C6_Witness ==
    \E t, u \in Threads :
        /\ Answered(t) /\ IsAccept(t)
        /\ pc[u] = "view" /\ IsProbe(u) /\ Ident(u) # Ident(t)
        /\ ~IsAccepted(ACCEPTED, Ident(u))

CoreEndpoint(t) == IsProbe(t) \/ IsPortal(t) \/ IsRoot(t) \/ IsAccept(t)

\* C7: every response of the core endpoints carries Cache-Control:
\* no-store, the 404 of GET /portal included.
C7_AlwaysNoStore ==
    \A t \in Threads : Answered(t) /\ CoreEndpoint(t) => resp[t].cache = NoStore

\* C8: the run with the sink configured answers every request as the run
\* with no sink configured does, and holds the same registry.
C8_SinkTransparent ==
    /\ ACCEPTED = ACCEPTED0
    /\ \A t \in Threads : Answered(t) => resp[t] = resp0[t]

\* C9: POST /accept always succeeds: the identity is in the registry and
\* the answer is 204 with an empty body, in every sink configuration.
C9_AcceptAlwaysSucceeds ==
    \A t \in Threads :
        Answered(t) /\ IsAccept(t) =>
            /\ Ident(t) \in ACCEPTED
            /\ resp[t].status = 204
            /\ resp[t].body = ""

\* C10: the response never waits for the audit write: a handler whose
\* response is ready can always send it, and a handler in flight always has
\* a step of its own to take, whether a writer thread is still running,
\* has failed or was never started.
C10_ResponseNeverWaits ==
    \A t \in Threads :
        /\ Answered(t) => ENABLED Respond(t)
        /\ InFlight(t) => ENABLED HandlerStep(t)

\* C10 witness: a response has gone out while the writer thread of the
\* same request has not finished.
C10_Witness ==
    \E t \in Threads : pc[t] = "idle" /\ write[t].state = "started"

\* C11: audit delivery is at-most-once with no retry: a writer makes at
\* most one insert attempt, and a failed one is never attempted again (it
\* stays failed until its thread slot serves a new request).
C11_AtMostOnce ==
    [][\A t \in Threads :
          /\ write'[t].attempts <= 1
          /\ write[t].state = "failed" /\ write'[t] # write[t] =>
                 write'[t] = NoWrite /\ pc[t] = "idle" /\ pc'[t] = "view"]_vars

\* C11 witness: a write attempt has failed and was discarded.
C11_Witness ==
    \E t \in Threads : write[t].state = "failed" /\ write[t].attempts = 1

\* C12: GET / always answers 302 with Location /portal, whatever the
\* registry, the client identity and the files under the document root.
C12_RootRedirects ==
    \A t \in Threads :
        Answered(t) /\ IsRoot(t) =>
            resp[t].status = 302 /\ resp[t].location = PORTAL_PATH

\* C13: the server is reached directly (no trusted proxy in front): two
\* requests from the same transport address that differ only in their
\* X-Forwarded-For header derive the same identity, which is that
\* transport address.
C13_IdentityIsTransportAddress ==
    \A t, u \in Threads :
        /\ InFlight(t) /\ InFlight(u)
        /\ req[t].remote = req[u].remote
        /\ req[t].method = req[u].method
        /\ req[t].path = req[u].path
        /\ req[t].host = req[u].host
        => Ident(t) = Ident(u) /\ Ident(t) = req[t].remote

\* The portal URL the probe is to report: the Host header when the request
\* has one, else the server's resolved address and its listen port.
ExpectedPortalUrls(host, port) ==
    IF host # NoHost
    THEN {"http://" \o host \o "/portal"}
    ELSE {"http://" \o a \o ":" \o port \o "/portal" : a \in ResolveOutcomes \ {GaiError}}

\* C14: the probe answers 200 with a JSON object of exactly the keys
\* captive and user-portal-url, the URL built from the Host header, or from
\* the server's address and configured listen port when Host is absent.
C14_ProbePayload ==
    \A t \in Threads :
        Answered(t) /\ IsProbe(t) =>
            /\ resp[t].status = 200
            /\ Cardinality(resp[t].json) = 1
            /\ \A p \in resp[t].json :
                 /\ DOMAIN p = {"captive", "user-portal-url"}
                 /\ p["captive"] \in BOOLEAN
                 /\ p["user-portal-url"] \in ExpectedPortalUrls(req[t].host, PORT)

\* C15: a request that is none of the four core routes, and that names no
\* static file, is answered 404, also when it is a core path with the
\* wrong method (GET /accept, POST /portal).
C15_UnmatchedIs404 ==
    \A t \in Threads :
        Answered(t) /\ ~CoreEndpoint(t) => resp[t].status = 404

\* C16: GET /portal has exactly two outcomes, 200 with the portal page or
\* 404 with a non-empty body, however the request interleaves with the
\* file appearing or disappearing.
C16_PortalTwoOutcomes ==
    \A t \in Threads :
        Answered(t) /\ IsPortal(t) =>
            \/ resp[t].status = 200 /\ resp[t].body = "<index.html>"
            \/ resp[t].status = 404 /\ resp[t].body # ""

\* C17: POST /accept is the only operation that changes the registry: a
\* step that changes it is the view of an accept adding its derived
\* identity, and every member was posted by some earlier POST /accept.
C17_OnlyAcceptWrites ==
    [][/\ ACCEPTED' # ACCEPTED =>
             \E t \in Threads :
                 /\ pc[t] = "view" /\ IsAccept(t) /\ pc'[t] = "respond"
                 /\ ACCEPTED' = ACCEPTED \cup {Ident(t)}
       /\ ACCEPTED' \subseteq posted']_vars

\* C17 witness: a probe of an identity that never accepted has run next to
\* a non-empty registry and is not in it.
C17_Witness ==
    \E t \in Threads :
        Answered(t) /\ IsProbe(t) /\ ACCEPTED # {} /\ Ident(t) \notin ACCEPTED

\* C18: the probe and the accept use in-memory state only: neither makes
\* an external lookup on any path, and each ends with its response (200
\* for the probe, 204 for the accept).
C18_NoExternalLookup ==
    \A t \in Threads :
        IsProbe(t) \/ IsAccept(t) =>
            /\ lookup[t] = "none"
            /\ Answered(t) => resp[t].status \in {200, 204}

\* C19: the audit record is a snapshot the request handler builds from its
\* request before it starts the background writer; the writer sends that
\* snapshot unchanged, and its step leaves the registry and the state of
\* every request as they were.
C19_WriterSendsSnapshot ==
    [][\A t \in Threads :
          /\ write[t].state # "started" /\ write'[t].state = "started" =>
                /\ pc[t] \in {"view", "send"} /\ pc'[t] = "respond"
                /\ write'[t].doc.ip = FlaskClientIp(req[t])
                /\ write'[t].doc.xff_ip = _xff_client_ip(req[t])
                /\ write'[t].doc.path = req[t].path
                /\ write'[t].attempts = 0
          /\ write[t].state = "started" => write'[t].doc = write[t].doc
          /\ write[t].state = "started" /\ write'[t].state # "started" =>
                UNCHANGED <<ACCEPTED, pc, req, resp, posted, completed>>]_vars

\* A writer finished after its request was answered and its handler freed.
C19_Witness ==
    \E t \in Threads :
        /\ pc[t] = "idle" /\ write[t].state \in {"ok", "failed"}
        /\ write[t].doc.path = ACCEPT_PATH /\ write[t].doc.ip \in ACCEPTED

====
